---- MODULE Spec2Model ----
(***************************************************************************)
(* Model of the photo catalogue server: the record routes of routes/api.js *)
(* (POST, PUT and DELETE /data) against the Prisma record store and the    *)
(* Vercel Blob object store, and the upload route (POST /api/upload) with  *)
(* busboy, sharp and put().                                                *)
(*                                                                         *)
(* A handler is split at its awaits.  An action is the settling of one     *)
(* awaited call: the call's effect on the store, then the continuation up  *)
(* to the next await (a request's arrival runs up to the settling of its   *)
(* first call, since nothing before it reads or writes shared state).      *)
(* Requests run in slots, so that handlers interleave at their awaits as   *)
(* they do on the Node event loop.                                         *)
(***************************************************************************)
EXTENDS Integers, Sequences, FiniteSets, TLC

\* ---- bounds of the model ------------------------------------------------
MaxSlots == 2          \* CRUD requests in flight at the same time
MaxRequests == 3       \* CRUD requests started in one behaviour
MaxRecords == 2        \* records ever created
MaxBlobs == 2          \* blobs ever put
MaxUploads == 1        \* upload requests in one behaviour
MaxChunks == 2         \* 'data' events of one upload

Slots == 1..MaxSlots
Uploads == 1..MaxUploads

\* ---- values -------------------------------------------------------------
Absent == "absent"            \* a field that is not in the object (undefined)
ClientId == "cid"             \* an identifier value chosen by the client
ForeignUrl == "http://x"      \* a URL string that no put() returned

BlobUrl(n) == "blob" \o ToString(n)
BlobUrls == {BlobUrl(n) : n \in 1..MaxBlobs}

Fields == {"id", "_id", "imageUrl"}

EmptyData == [f \in Fields |-> Absent]
NoRec == [id |-> 0, data |-> EmptyData, createdAt |-> 0]
NoResp == [status |-> 0, error |-> "", rec |-> NoRec, list |-> <<>>]

\* JavaScript truthiness of a string-or-undefined field (photo?.imageUrl)
Truthy(v) == v # Absent /\ v # ""

ErrorResp(st, msg) == [NoResp EXCEPT !.status = st, !.error = msg]
RecResp(st, rec) == [NoResp EXCEPT !.status = st, !.rec = rec]
ListResp(st, list) == [NoResp EXCEPT !.status = st, !.list = list]

\* The identifier fields a body can carry, and what a handler has handed to
\* the store as `data`: the identifier fields present in it, and whether
\* every other field is as it was in req.body
IdFields == {"id", "_id"}
NoneHanded == [ids |-> {}, same |-> TRUE]
Handed(body, data) ==
    [ids |-> {f \in IdFields : data[f] # Absent},
     same |-> \A f \in Fields \ IdFields : data[f] = body[f]]

IdleSlot ==
    [kind |-> "idle", pc |-> "idle", id |-> 0, body |-> EmptyData,
     photo |-> NoRec, result |-> NoRec, attempt |-> 0, tries |-> 0,
     resp |-> NoResp, nresp |-> 0, delCalls |-> <<>>,
     blobOutcome |-> "none", err |-> "none", handed |-> NoneHanded,
     outcomes |-> <<>>, delays |-> 0]

\* ---- upload configuration (routes/upload.js) ----------------------------
MAX_FILE_SIZE == 10 * 1024 * 1024
ALLOWED_TYPES == {"image/jpeg", "image/png", "image/webp", "image/svg+xml"}

\* Declared content types a client can send, and what the bytes really are
MimeTypes == ALLOWED_TYPES \cup {"image/gif", "text/plain"}
Contents == {"raster", "svg", "garbage"}
\* Lengths of the chunks of the file stream
ChunkLens == {5 * 1024 * 1024, 5 * 1024 * 1024 + 1}
\* Lengths sharp's JPEG output can have
JpegLens == {4096, 8192}

NoBuffer == [kind |-> "none", chunks |-> <<>>, length |-> 0]
\* What put() resolves to: { url, pathname, contentType }
NoBlob == [url |-> "", pathname |-> "", contentType |-> ""]
NoUpResp ==
    [status |-> 0, error |-> "", url |-> "", pathname |-> "",
     contentType |-> "", size |-> 0]

IdleUpload ==
    [pc |-> "idle", mimeType |-> "", content |-> "", chunks |-> <<>>,
     fileSize |-> 0, destroyed |-> FALSE, processed |-> NoBuffer,
     sharpCalls |-> 0, putCalls |-> <<>>, resp |-> NoUpResp, nresp |-> 0,
     failed |-> "none", blob |-> NoBlob]

VARIABLES
    db,        \* record store: the set of records of the photo collection
    nextId,    \* number of records created so far (identifiers, createdAt)
    blobs,     \* object store: URLs of the blobs that exist
    issued,    \* URLs returned by put() so far
    req,       \* CRUD request slots
    started,   \* CRUD requests started so far
    last,      \* the CRUD request that returned last, as its handler left it
    up         \* upload requests

vars == <<db, nextId, blobs, issued, req, started, last, up>>

\* Identifiers a request can name: those of the records created so far and
\* one that no record ever had
KnownIds == 1..(nextId + 1)

Find(id) == {rec \in db : rec.id = id}

Init ==
    /\ db = {}
    /\ nextId = 0
    /\ blobs = {}
    /\ issued = {}
    /\ req = [r \in Slots |-> IdleSlot]
    /\ started = 0
    /\ last = IdleSlot
    /\ up = [u \in Uploads |-> IdleUpload]

\* A slot takes a new request when it is free
\* (the lowest one: slots are interchangeable)
Free(r) ==
    /\ req[r].pc = "idle" /\ started < MaxRequests
    /\ \A q \in Slots : q < r => req[q].pc # "idle"

\* Request bodies a client can send: an optional client-chosen identifier
\* (sent as both id and _id) and an optional imageUrl, which is any string
ImageUrlInputs == {Absent, "", ForeignUrl} \cup issued
Bodies ==
    {b \in [Fields -> {Absent, "", ClientId, ForeignUrl} \cup issued] :
        /\ b["id"] \in {Absent, ClientId}
        /\ b["_id"] = b["id"]
        /\ b["imageUrl"] \in ImageUrlInputs}
\* Bodies that carry no identifier field
PlainBodies == {b \in Bodies : b["id"] = Absent}

\* The stores persist: the server starts on stores that two earlier uploads
\* and a POST /data have left two blobs and a record of the first blob in
SwapInit ==
    /\ db = {[id |-> 1, createdAt |-> 1,
              data |-> [EmptyData EXCEPT !["imageUrl"] = BlobUrl(1)]]}
    /\ nextId = 1
    /\ blobs = {BlobUrl(1), BlobUrl(2)}
    /\ issued = {BlobUrl(1), BlobUrl(2)}
    /\ req = [r \in Slots |-> IdleSlot]
    /\ started = 0
    /\ last = IdleSlot
    /\ up = [u \in Uploads |-> IdleUpload]

\* The same stores after a second POST /data with the URL of the first blob:
\* two records refer to one blob
ShareInit ==
    /\ db = {[id |-> i, createdAt |-> i,
              data |-> [EmptyData EXCEPT !["imageUrl"] = BlobUrl(1)]] :
                i \in 1..2}
    /\ nextId = 2
    /\ blobs = {BlobUrl(1), BlobUrl(2)}
    /\ issued = {BlobUrl(1), BlobUrl(2)}
    /\ req = [r \in Slots |-> IdleSlot]
    /\ started = 0
    /\ last = IdleSlot
    /\ up = [u \in Uploads |-> IdleUpload]

\* Bodies that set imageUrl to a URL no upload returned, or leave it out
UrlBodies == {b \in PlainBodies : b["imageUrl"] \in {Absent, ForeignUrl}}

\* Bodies that set imageUrl to the URL of an uploaded blob
SwapBodies == {b \in PlainBodies : b["imageUrl"] \in issued}

\* A request arrives in slot r
Arrive(k, i, b) == [IdleSlot EXCEPT !.kind = k, !.id = i, !.body = b]

\* The handler sends a response and returns
Respond(s, response) ==
    [s EXCEPT !.resp = response, !.nresp = s.nresp + 1, !.pc = "done",
              !.body = EmptyData]

\* Slot r goes on as s; a handler that has returned frees its slot
Settle(r, s) ==
    IF s.pc = "done"
    THEN req' = [req EXCEPT ![r] = IdleSlot] /\ last' = s
    ELSE req' = [req EXCEPT ![r] = s] /\ UNCHANGED last

\* ---- POST /data --------------------------------------------------------
\* const { id, ...createData } = req.body
StripPost(b) == [b EXCEPT !["id"] = Absent]

\* The whole handler: await prisma[model].create({ data: createData }),
\* then 201 with the created record, or 500 from the catch block
PostData(r, B) ==
    /\ Free(r)
    /\ started' = started + 1
    /\ \E b \in B :
        LET createData == StripPost(b)
            s == [Arrive("post", 0, b) EXCEPT !.tries = 1,
                      !.handed = Handed(b, createData)] IN
        \/ /\ nextId < MaxRecords
           /\ LET rec == [id |-> nextId + 1, data |-> createData,
                          createdAt |-> nextId + 1]
              IN /\ db' = db \cup {rec}
                 /\ nextId' = nextId + 1
                 /\ Settle(r, Respond(s, RecResp(201, rec)))
        \/ /\ \E e \in {"P2034", "other"} :
                Settle(r,
                          Respond([s EXCEPT !.err = e],
                                  ErrorResp(500, "Failed to create record")))
           /\ UNCHANGED <<db, nextId>>
    /\ UNCHANGED <<blobs, issued, up>>

\* ---- GET /data ----------------------------------------------------------
\* take: 100
take == 100

\* orderBy: { createdAt: 'desc' }: record y comes before record x
BeforeOldestFirst(y, x) == y.createdAt < x.createdAt
Before(y, x) == y.createdAt > x.createdAt

\* The records in that order: each at the place after those before it
OrderByCreatedAt(records) ==
    LET place == [x \in records |->
                    Cardinality({y \in records : Before(y, x)}) + 1]
    IN [i \in 1..Cardinality(records) |->
          CHOOSE x \in records : place[x] = i]

First(list, n) == SubSeq(list, 1, IF Len(list) < n THEN Len(list) ELSE n)

\* prisma[model].findMany({ take: 100, orderBy: { createdAt: 'desc' } })
FindMany(records) == First(OrderByCreatedAt(records), take)

\* The whole handler: await findMany, then res.send(result), or 500 from
\* the catch block
GetData(r) ==
    /\ Free(r)
    /\ started' = started + 1
    /\ LET s == [Arrive("get", 0, EmptyData) EXCEPT !.tries = 1] IN
       \/ Settle(r, Respond(s, ListResp(200, FindMany(db))))
       \/ Settle(r, Respond([s EXCEPT !.err = "other"],
                            ErrorResp(500, "Failed to fetch records")))
    /\ UNCHANGED <<db, nextId, blobs, issued, up>>

\* Stores of about `take` records, created in the order of their identifiers
\* or in the opposite order (an identifier says nothing about creation time)
ListSizes == {0, 1, take - 1, take, take + 1, take + 2}
ListInit ==
    /\ \E n \in ListSizes, order \in {"asc", "desc"} :
        /\ db = {[id |-> i, data |-> EmptyData,
                  createdAt |-> IF order = "asc" THEN i ELSE n + 1 - i] :
                    i \in 1..n}
        /\ nextId = n
    /\ blobs = {}
    /\ issued = {}
    /\ req = [r \in Slots |-> IdleSlot]
    /\ started = 0
    /\ last = IdleSlot
    /\ up = [u \in Uploads |-> IdleUpload]

\* ---- PUT /data/:id -----------------------------------------------------
\* const { id, _id, ...requestBody } = req.body || {}
StripPut(b) == [b EXCEPT !["id"] = Absent, !["_id"] = Absent]

\* prisma update: the fields given replace the record's, the others stay
ApplyUpdate(rec, data) ==
    [rec EXCEPT !.data =
        [f \in Fields |-> IF data[f] # Absent THEN data[f] ELSE rec.data[f]]]

\* for (let attempt = 0; attempt < 3; attempt++)
LoopCond(attempt) == attempt < 3
NextAttemptStuck(attempt) == attempt
NextAttempt(attempt) == attempt + 1
RetryAlways(attempt) == attempt < 3
\* if (attempt < 2) { delay; continue }
RetryOnConflict(attempt) == attempt < 2

\* The object store after a successful update that turned rec into updated:
\* the handler makes no call to the object store
BlobsAfterUpdateDropOld(rec, updated) ==
    IF updated.data["imageUrl"] # rec.data["imageUrl"]
    THEN blobs \ {rec.data["imageUrl"]}
    ELSE blobs
BlobsAfterUpdate(rec, updated) == blobs

\* How an attempt's await prisma[model].update() settled
Outcome(s, o) == [s EXCEPT !.outcomes = Append(s.outcomes, o)]

\* One pass of the loop body in slot state s: await prisma[model].update(),
\* and the catch block when it throws (P2034 write conflict, or another
\* error such as P2025 record not found)
PutAttempt(r, s0) ==
    LET requestBody == StripPut(s0.body)
        s == [s0 EXCEPT !.tries = s0.tries + 1,
                        !.handed = Handed(s0.body, requestBody)] IN
    \/ \E rec \in Find(s.id) :
         LET updated == ApplyUpdate(rec, requestBody) IN
         /\ db' = (db \ {rec}) \cup {updated}
         /\ blobs' = BlobsAfterUpdate(rec, updated)
         /\ Settle(r, Respond(Outcome(s, "ok"), RecResp(200, updated)))
    \/ /\ UNCHANGED <<db, blobs>>
       /\ Settle(r,
            IF RetryOnConflict(s.attempt)
            THEN [Outcome(s, "P2034") EXCEPT !.err = "P2034", !.pc = "delay",
                                            !.delays = s.delays + 1]
            ELSE Respond([Outcome(s, "P2034") EXCEPT !.err = "P2034"],
                         ErrorResp(409, "Write conflict, please retry")))
    \/ /\ UNCHANGED <<db, blobs>>
       /\ Settle(r,
            Respond([Outcome(s, "other") EXCEPT !.err = "other"],
                    ErrorResp(500, "Failed to update record")))

\* The request arrives and the first attempt runs
PutData(r, B) ==
    /\ Free(r)
    /\ started' = started + 1
    /\ \E i \in KnownIds, b \in B : PutAttempt(r, Arrive("put", i, b))
    /\ UNCHANGED <<nextId, issued, up>>

\* await new Promise(r => setTimeout(r, 100)); continue: the loop's
\* attempt++ and test, then the next attempt
PutRetry(r) ==
    /\ req[r].kind = "put" /\ req[r].pc = "delay"
    /\ LET s == [req[r] EXCEPT !.attempt = NextAttempt(req[r].attempt)] IN
       IF LoopCond(s.attempt)
       THEN PutAttempt(r, s)
       ELSE /\ Settle(r, [s EXCEPT !.pc = "done"])
            /\ UNCHANGED <<db, blobs>>
    /\ UNCHANGED <<nextId, issued, started, up>>

\* ---- DELETE /data/:id --------------------------------------------------
\* if (photo?.imageUrl)
ShouldDeleteBlobIfPresent(photo) == photo.data["imageUrl"] # Absent
ShouldDeleteBlob(photo) == Truthy(photo.data["imageUrl"])

\* prisma delete throws (P2025) when no record has the identifier
DeleteOutcomeMany(id) == "ok"
DeleteOutcome(id) == IF Find(id) # {} THEN "ok" ELSE "P2025"

DeleteError == ErrorResp(500, "Failed to delete record")

\* res.send(result) after the blob delete has settled, whatever its outcome
BlobSettledRespThrow(outcome, result) ==
    IF outcome = "fail" THEN DeleteError ELSE RecResp(200, result)
BlobSettledResp(outcome, result) == RecResp(200, result)

\* await del(photo.imageUrl): the call is issued and the handler waits
IssueBlobDeleteNoAwait(t, url) ==
    [t EXCEPT !.pc = "blob", !.delCalls = Append(t.delCalls, url),
              !.resp = RecResp(200, t.result), !.nresp = t.nresp + 1]
IssueBlobDelete(t, url) ==
    [t EXCEPT !.pc = "blob", !.delCalls = Append(t.delCalls, url)]

\* The argument of del(): the imageUrl of the record findUnique returned,
\* not that of the record delete returned
BlobTargetOfResult(photo, result) == result.data["imageUrl"]
BlobTarget(photo, result) == photo.data["imageUrl"]

\* The request arrives: const photo = await prisma[model].findUnique(...)
DelFind(r) ==
    /\ Free(r)
    /\ started' = started + 1
    /\ \E i \in KnownIds :
        LET s == Arrive("delete", i, EmptyData) IN
        \/ Settle(r,
             [s EXCEPT !.pc = "delete",
                       !.photo = IF Find(i) = {} THEN NoRec
                                 ELSE CHOOSE rec \in Find(i) : TRUE])
        \/ Settle(r,
             Respond([s EXCEPT !.err = "other"], DeleteError))
    /\ UNCHANGED <<db, nextId, blobs, issued, up>>

\* const result = await prisma[model].delete(...), then the blob delete is
\* issued (await del(photo.imageUrl)) or the response is sent
DelDelete(r) ==
    /\ req[r].kind = "delete" /\ req[r].pc = "delete"
    /\ LET s == [req[r] EXCEPT !.tries = 1] IN
       \/ /\ DeleteOutcome(s.id) = "ok"
          /\ LET rec == IF Find(s.id) = {} THEN NoRec
                        ELSE CHOOSE x \in Find(s.id) : TRUE
                 t == [s EXCEPT !.result = rec]
             IN /\ db' = db \ {rec}
                /\ Settle(r,
                     IF ShouldDeleteBlob(s.photo)
                     THEN IssueBlobDelete(t, BlobTarget(s.photo, rec))
                     ELSE Respond(t, RecResp(200, rec)))
       \/ /\ \E e \in {DeleteOutcome(s.id), "other"} \ {"ok"} :
               Settle(r, Respond([s EXCEPT !.err = e], DeleteError))
          /\ UNCHANGED db
    /\ UNCHANGED <<nextId, blobs, issued, started, up>>

\* del(photo.imageUrl) settles: the blob is removed, or the call rejects and
\* the inner catch logs it; then res.send(result)
DelBlob(r) ==
    /\ req[r].kind = "delete" /\ req[r].pc = "blob"
    /\ \E outcome \in {"ok", "fail"} :
        /\ blobs' = IF outcome = "ok"
                    THEN blobs \ {req[r].delCalls[Len(req[r].delCalls)]}
                    ELSE blobs
        /\ Settle(r,
             Respond([req[r] EXCEPT !.blobOutcome = outcome],
                     BlobSettledResp(outcome, req[r].result)))
    /\ UNCHANGED <<db, nextId, issued, started, up>>

\* ---- POST /api/upload --------------------------------------------------
RECURSIVE SumLen(_)
SumLen(seq) == IF seq = <<>> THEN 0 ELSE Head(seq) + SumLen(Tail(seq))

\* Buffer.concat(chunks)
Concat(chunks) == [kind |-> "raw", chunks |-> chunks, length |-> SumLen(chunks)]

\* ALLOWED_TYPES.includes(info.mimeType): the declared type of the part
TypeAllowedSniffed(mimeType, content) == content \in {"raster", "svg"}
TypeAllowed(mimeType, content) == mimeType \in ALLOWED_TYPES

\* info.mimeType.includes('svg')
IncludesSvgNever(mimeType) == FALSE
IncludesSvg(mimeType) == mimeType \in {"image/svg+xml"}

\* if (fileSize > MAX_FILE_SIZE)
TooLargeNever(fileSize) == FALSE
TooLarge(fileSize) == fileSize > MAX_FILE_SIZE

\* res.status(..).json(..) for an upload
UpRespond(s, response) ==
    [s EXCEPT !.resp = response, !.nresp = s.nresp + 1]

UpError(st, msg) == [NoUpResp EXCEPT !.status = st, !.error = msg]

\* put(name, processedBuffer, { contentType, ... }) is called
CallPutTwice(s, buffer, contentType) ==
    [s EXCEPT !.pc = "storing", !.processed = buffer,
              !.putCalls = s.putCalls \o
                  <<[bytes |-> Concat(s.chunks), contentType |-> contentType],
                    [bytes |-> buffer, contentType |-> contentType]>>]
CallPut(s, buffer, contentType) ==
    [s EXCEPT !.pc = "storing", !.processed = buffer,
              !.putCalls = Append(s.putCalls,
                                  [bytes |-> buffer, contentType |-> contentType])]

\* `cat-images/${Date.now()}-${info.filename}` with the random suffix
Pathname(n) == "cat-images/" \o ToString(n)

\* res.json({ url: blob.url, pathname: blob.pathname,
\*            contentType: blob.contentType, size: processedBuffer.length })
UploadOk(blob, processedBuffer) ==
    [NoUpResp EXCEPT !.status = 200, !.url = blob.url,
                     !.pathname = blob.pathname,
                     !.contentType = blob.contentType,
                     !.size = processedBuffer.length]

\* bb.on('file'): the part arrives with its declared type; the type check,
\* then the 'data' and 'end' listeners are attached
UploadFile(u) ==
    /\ up[u].pc = "idle"
    /\ \E m \in MimeTypes, c \in Contents :
        LET s == [IdleUpload EXCEPT !.mimeType = m, !.content = c] IN
        up' = [up EXCEPT ![u] =
                 IF ~TypeAllowed(m, c)
                 THEN UpRespond([s EXCEPT !.pc = "done"],
                        UpError(400, "Invalid file type. Only images allowed."))
                 ELSE [s EXCEPT !.pc = "receiving"]]
    /\ UNCHANGED <<db, nextId, blobs, issued, req, started, last>>

FileDataNoAbort(u) ==
    /\ up[u].pc = "receiving"
    /\ Len(up[u].chunks) < MaxChunks
    /\ \E len \in ChunkLens :
        LET s == [up[u] EXCEPT !.fileSize = up[u].fileSize + len,
                              !.chunks = Append(up[u].chunks, len)] IN
        up' = [up EXCEPT ![u] =
                 IF TooLarge(s.fileSize)
                 THEN [UpRespond(s,
                         UpError(400, "File too large. Maximum size is 10MB."))
                       EXCEPT !.pc = "receiving"]
                 ELSE s]
    /\ UNCHANGED <<db, nextId, blobs, issued, req, started, last>>

\* file.on('data'): a destroyed stream emits no further 'data' and no 'end'
FileData(u) ==
    /\ up[u].pc = "receiving" /\ ~up[u].destroyed
    /\ Len(up[u].chunks) < MaxChunks
    /\ \E len \in ChunkLens :
        LET s == [up[u] EXCEPT !.fileSize = up[u].fileSize + len] IN
        up' = [up EXCEPT ![u] =
                 IF TooLarge(s.fileSize)
                 THEN UpRespond([s EXCEPT !.destroyed = TRUE, !.pc = "done"],
                        UpError(400, "File too large. Maximum size is 10MB."))
                 ELSE [s EXCEPT !.chunks = Append(s.chunks, len)]]
    /\ UNCHANGED <<db, nextId, blobs, issued, req, started, last>>

\* file.on('end'): the buffer is built; sharp is called unless the declared
\* type is SVG, in which case put is called with the buffer as it is
FileEnd(u) ==
    /\ up[u].pc = "receiving" /\ ~up[u].destroyed
    /\ LET buffer == Concat(up[u].chunks) IN
       up' = [up EXCEPT ![u] =
                IF ~IncludesSvg(up[u].mimeType)
                THEN [up[u] EXCEPT !.pc = "transcoding",
                                   !.sharpCalls = up[u].sharpCalls + 1]
                ELSE CallPut(up[u], buffer, up[u].mimeType)]
    /\ UNCHANGED <<db, nextId, blobs, issued, req, started, last>>

\* await sharp(buffer)...toBuffer() settles.  A rejection is raised inside
\* the async 'end' listener, outside the try block of the 'file' handler:
\* nothing catches it and no response is sent
Transcode(u) ==
    /\ up[u].pc = "transcoding"
    /\ \/ /\ up[u].content = "raster"
          /\ \E n \in JpegLens :
              up' = [up EXCEPT ![u] =
                 CallPut(up[u], [kind |-> "jpeg", chunks |-> up[u].chunks,
                                 length |-> n], "image/jpeg")]
       \/ up' = [up EXCEPT ![u] =
                   [up[u] EXCEPT !.pc = "unhandled", !.failed = "sharp"]]
    /\ UNCHANGED <<db, nextId, blobs, issued, req, started, last>>

\* await put(...) settles: the blob exists and the response carries its
\* reference, or put rejected (uncaught, as above)
Put(u) ==
    /\ up[u].pc = "storing"
    /\ \/ /\ Cardinality(issued) < MaxBlobs
          /\ LET url == BlobUrl(Cardinality(issued) + 1)
                 call == up[u].putCalls[Len(up[u].putCalls)]
                 blob == [url |-> url,
                          pathname |-> Pathname(Cardinality(issued) + 1),
                          contentType |-> call.contentType]
             IN /\ blobs' = blobs \cup {url}
                /\ issued' = issued \cup {url}
                /\ up' = [up EXCEPT ![u] =
                     UpRespond([up[u] EXCEPT !.pc = "done", !.blob = blob],
                               UploadOk(blob, up[u].processed))]
       \/ /\ up' = [up EXCEPT ![u] =
                     [up[u] EXCEPT !.pc = "unhandled", !.failed = "put"]]
          /\ UNCHANGED <<blobs, issued>>
    /\ UNCHANGED <<db, nextId, req, started, last>>

CrudNext ==
    \E r \in Slots :
        \/ PostData(r, PlainBodies)
        \/ PutData(r, PlainBodies) \/ PutRetry(r)
        \/ DelFind(r) \/ DelDelete(r) \/ DelBlob(r)

\* POST and PUT with bodies that may carry identifier fields
IdNext ==
    \E r \in Slots :
        \/ PostData(r, Bodies)
        \/ PutData(r, Bodies) \/ PutRetry(r)

\* Updates that point a record at an uploaded blob, beside deletions
SwapNext ==
    \E r \in Slots :
        \/ PutData(r, SwapBodies) \/ PutRetry(r)
        \/ DelFind(r) \/ DelDelete(r) \/ DelBlob(r)

UploadNext ==
    \E u \in Uploads :
        \/ UploadFile(u) \/ FileData(u) \/ FileEnd(u)
        \/ Transcode(u) \/ Put(u)

\* Listing beside creation
ListNext == \E r \in Slots : GetData(r) \/ PostData(r, PlainBodies)

Next == CrudNext \/ UploadNext \/ ListNext

Spec == Init /\ [][Next]_vars
CrudSpec == Init /\ [][CrudNext]_vars
SwapSpec == SwapInit /\ [][SwapNext]_vars
ListSpec == ListInit /\ [][ListNext]_vars
ShareSpec == ShareInit /\ [][SwapNext]_vars
IdSpec == Init /\ [][IdNext]_vars
UploadSpec == Init /\ [][UploadNext]_vars

\* The awaited store calls settle and the retry timer fires
\* The CRUD requests with bodies that set imageUrl to a URL or leave it out:
\* the timer of a retry fires, and the store calls of a DELETE settle
FairCrudNext ==
    \E r \in Slots :
        \/ PostData(r, UrlBodies)
        \/ PutData(r, UrlBodies) \/ PutRetry(r)
        \/ DelFind(r) \/ DelDelete(r) \/ DelBlob(r)

FairCrudSpec ==
    Init /\ [][FairCrudNext]_vars /\ \A r \in Slots :
        WF_vars(PutRetry(r)) /\ WF_vars(DelDelete(r)) /\ WF_vars(DelBlob(r))

\* ---- properties --------------------------------------------------------
\* The requests in flight and the one that returned last
Handlers == {req[r] : r \in Slots} \cup {last}

DeleteSucceeded(s) == s.kind = "delete" /\ s.result # NoRec

\* A request returns in this step
StepReturns ==
    \/ \E r \in Slots : req[r].pc # "idle" /\ req'[r].pc = "idle"
    \/ started' # started /\ req' = req

\* C1: a DELETE /data/:id whose record deletion succeeded has issued exactly
\* one blob delete, with the record's imageUrl as argument, when the record
\* it read has a non-empty imageUrl, and none when imageUrl is absent or ""
C1_BlobDeleteCount ==
    \A s \in Handlers :
        DeleteSucceeded(s) =>
            LET url == s.photo.data["imageUrl"] IN
            IF url # Absent /\ url # ""
            THEN s.delCalls = <<url>>
            ELSE s.delCalls = <<>>

C1_Witness ==
    /\ DeleteSucceeded(last) /\ last.pc = "done"
    /\ last.photo.data["imageUrl"] = ForeignUrl
    /\ last.delCalls = <<ForeignUrl>>

\* C2: when the blob delete of a DELETE /data/:id has settled, failed or
\* not, the response is 200 with the deleted record and the record is not
\* in the record store
C2_BlobFailureKeepsOutcome ==
    \A s \in Handlers :
        (s.kind = "delete" /\ s.blobOutcome \in {"ok", "fail"}) =>
            /\ s.result # NoRec
            /\ s.resp = RecResp(200, s.result)
            /\ s.nresp = 1
            /\ Find(s.id) = {}

C2_Witness ==
    /\ last.kind = "delete" /\ last.blobOutcome = "fail"
    /\ last.resp.status = 200

\* C3: a step of DELETE /data/:id that issues a blob delete is the one in
\* which the record left the record store; a step in which the request
\* fails (the identifier does not exist, or the store throws) leaves the
\* record store as it was, issues no blob delete and responds 500
C3_DeleteOrder ==
    [][ /\ \A r \in Slots :
            Len(req'[r].delCalls) > Len(req[r].delCalls) =>
              /\ req[r].kind = "delete" /\ req[r].pc = "delete"
              /\ req'[r].result \in db
              /\ {rec \in db' : rec.id = req[r].id} = {}
        /\ (StepReturns /\ last'.kind = "delete" /\ last'.result = NoRec) =>
              /\ db' = db
              /\ last'.delCalls = <<>>
              /\ last'.resp.status = 500
              /\ last'.nresp = 1
      ]_vars

C3_Witness ==
    /\ last.kind = "delete" /\ last.pc = "done"
    /\ last.err = "P2025" /\ last.resp.status = 500

\* C4 as stated: when the blob delete is being attempted the success
\* response has already been sent
C4_ResponseBeforeBlobDelete ==
    \A r \in Slots :
        (req[r].kind = "delete" /\ req[r].pc = "blob") => req[r].nresp = 1

\* C4 amended: the blob delete is awaited; no response is sent while it is
\* pending, and once it has settled (either way) the one response is the 200
C4_ResponseAfterBlobDelete ==
    \A s \in Handlers :
        s.kind = "delete" =>
            /\ s.pc = "blob" => s.nresp = 0
            /\ s.blobOutcome # "none" =>
                  /\ s.pc = "done" /\ s.nresp = 1
                  /\ s.resp.status = 200

C4_Witness ==
    /\ last.kind = "delete" /\ last.blobOutcome = "ok"
    /\ last.nresp = 1

\* Another PUT on the record of s is in flight
Racing(s) ==
    \E q \in Slots :
        /\ req[q].kind = "put" /\ req[q].pc = "delay"
        /\ req[q].id = s.id /\ Find(s.id) # {}

\* C5: a PUT /data/:id request never makes more than 3 update attempts
C5_AtMostThreeAttempts ==
    \A s \in Handlers : s.kind = "put" => s.tries <= 3

C5_Witness ==
    last.kind = "put" /\ last.tries = 3 /\ Racing(last)

\* C6 as stated: a PUT racing with another PUT on the same record ends with
\* one response, the updated record or the 409
C6_UpdatedOrConflict ==
    (last.kind = "put" /\ Racing(last)) =>
        last.nresp = 1 /\ last.resp.status \in {200, 409}

\* C6 amended: every PUT ends, with exactly one response, which is the
\* updated record, the 409 or the 500 of an error that is no write conflict
C6_PutResponds ==
    /\ [](\A s \in Handlers :
            s.kind = "put" =>
                /\ s.pc \in {"delay", "done"}
                /\ s.pc = "delay" => s.nresp = 0
                /\ s.pc = "done" =>
                      /\ s.nresp = 1
                      /\ s.resp.status \in {200, 409, 500}
                      /\ s.resp.status = 200 => s.resp.rec.id = s.id)
    /\ \A r \in Slots :
          (req[r].kind = "put" /\ req[r].pc = "delay") ~> (req[r].pc = "idle")

C6_Witness ==
    /\ last.kind = "put" /\ last.pc = "done" /\ Racing(last)
    /\ last.resp.status = 409 /\ last.nresp = 1

\* C7: a POST /data whose create met a write conflict has made 3 attempts
\* and answers 409
C7_CreateRetriesConflict ==
    (last.kind = "post" /\ last.err = "P2034") =>
        last.tries = 3 /\ last.resp.status = 409

\* C8: an upload whose transcoding or put failed has been answered with 500
C8_FailureReported ==
    \A u \in Uploads :
        up[u].failed \in {"sharp", "put"} =>
            up[u].nresp = 1 /\ up[u].resp.status = 500

\* C9: an upload whose accumulated size exceeds 10 MiB is answered 400 and
\* neither sharp nor put is called for it
C9_OversizeRejected ==
    \A u \in Uploads :
        up[u].fileSize > 10 * 1024 * 1024 =>
            /\ up[u].nresp = 1 /\ up[u].resp.status = 400
            /\ up[u].sharpCalls = 0 /\ up[u].putCalls = <<>>
            /\ up[u].pc = "done"

C9_Witness ==
    \E u \in Uploads :
        /\ up[u].fileSize > 10 * 1024 * 1024 /\ Len(up[u].chunks) = 1
        /\ up[u].resp.status = 400

\* C10: an upload is answered 400 "invalid file type" exactly when its
\* declared type is outside the allow-list, whatever its bytes are, and then
\* nothing is read, sharp and put are not called
C10_DisallowedTypeRejected ==
    \A u \in Uploads :
        up[u].pc # "idle" =>
            IF up[u].mimeType \in
                 {"image/jpeg", "image/png", "image/webp", "image/svg+xml"}
            THEN up[u].resp.error # "Invalid file type. Only images allowed."
            ELSE /\ up[u].nresp = 1 /\ up[u].resp.status = 400
                 /\ up[u].sharpCalls = 0 /\ up[u].putCalls = <<>>
                 /\ up[u].chunks = <<>> /\ up[u].pc = "done"

C10_Witness ==
    \E u \in Uploads :
        /\ up[u].mimeType = "image/gif" /\ up[u].content = "raster"
        /\ up[u].resp.status = 400

\* The stage of the upload state machine a request is in
Stage(s) ==
    CASE s.pc = "idle" -> "Idle"
      [] s.pc = "receiving" -> "Receiving"
      [] s.pc = "transcoding" -> "Transcoding"
      [] s.pc = "storing" -> "Storing"
      [] s.pc = "done" /\ s.resp.status = 200 -> "Responding"
      [] s.pc = "done" /\ s.resp.status = 400 -> "Rejected"
      [] s.pc = "done" /\ s.resp.status = 500 -> "Failed"
      [] OTHER -> "None"

StageRank(st) ==
    CASE st = "Idle" -> 0
      [] st = "Receiving" -> 1
      [] st = "Transcoding" -> 3
      [] st = "Storing" -> 4
      [] st = "Responding" -> 5
      [] OTHER -> 6

\* C11: an upload moves forward through Receiving, Validating, Transcoding,
\* Storing, Responding or leaves to Rejected or Failed, and a handler that
\* has ended has reached Responding, Rejected or Failed
C11_StagesReachOutcome ==
    /\ [][\A u \in Uploads :
            up'[u] # up[u] =>
                \/ Stage(up'[u]) \in {"Rejected", "Failed"}
                \/ /\ Stage(up'[u]) \in {"Receiving", "Transcoding",
                                         "Storing", "Responding"}
                   /\ StageRank(Stage(up'[u])) >= StageRank(Stage(up[u]))
       ]_vars
    /\ [](\A u \in Uploads :
            up[u].pc \in {"done", "unhandled"} =>
                Stage(up[u]) \in {"Responding", "Rejected", "Failed"})

\* The bytes an upload ends up with: sharp's output, or the input for SVG
FinalBytes(s) ==
    IF s.mimeType = "image/svg+xml"
    THEN [kind |-> "raw", chunks |-> s.chunks, length |-> SumLen(s.chunks)]
    ELSE s.processed

\* C12: an upload calls put at most once, with the final bytes; a success
\* response exists only with the blob put returned and carries that blob's
\* url, pathname and contentType and the length of the bytes stored; the
\* blobs that exist are those of the uploads that were answered 200
C12_PutOnce ==
    /\ \A u \in Uploads :
        /\ Len(up[u].putCalls) <= 1
        /\ up[u].putCalls # <<>> =>
              /\ up[u].pc \in {"storing", "done", "unhandled"}
              /\ up[u].putCalls[1].bytes = FinalBytes(up[u])
              /\ up[u].putCalls[1].bytes.kind \in {"raw", "jpeg"}
        /\ up[u].resp.status = 200 =>
              /\ up[u].putCalls # <<>> /\ up[u].blob # NoBlob
              /\ up[u].blob.url \in blobs
              /\ up[u].resp.url = up[u].blob.url
              /\ up[u].resp.pathname = up[u].blob.pathname
              /\ up[u].resp.contentType = up[u].blob.contentType
              /\ up[u].resp.size = up[u].putCalls[1].bytes.length
        /\ up[u].failed = "put" => up[u].blob = NoBlob
    /\ Cardinality(blobs) = Cardinality({u \in Uploads : up[u].resp.status = 200})

C12_Witness ==
    \E u \in Uploads :
        /\ up[u].resp.status = 200 /\ up[u].mimeType = "image/png"
        /\ Len(up[u].putCalls) = 1 /\ up[u].resp.size \in JpegLens
        /\ up[u].resp.url \in blobs

\* C13: an accepted upload declared as SVG is never given to sharp and put
\* receives the input bytes with the declared SVG type; for every other
\* accepted type put receives the content type image/jpeg
C13_SvgBypass ==
    \A u \in Uploads :
        /\ (up[u].pc # "idle" /\ up[u].mimeType = "image/svg+xml") =>
               up[u].sharpCalls = 0
        /\ up[u].putCalls # <<>> =>
              /\ up[u].mimeType \in ALLOWED_TYPES
              /\ IF up[u].mimeType = "image/svg+xml"
                 THEN /\ up[u].putCalls[1].bytes = Concat(up[u].chunks)
                      /\ up[u].putCalls[1].contentType = "image/svg+xml"
                 ELSE /\ up[u].putCalls[1].contentType = "image/jpeg"
                      /\ up[u].sharpCalls = 1

C13_Witness ==
    \E u \in Uploads :
        /\ up[u].mimeType = "image/svg+xml" /\ up[u].resp.status = 200
        /\ Len(up[u].chunks) >= 1
        /\ up[u].resp.contentType = "image/svg+xml"
        /\ up[u].resp.size = SumLen(up[u].chunks)

\* C14: the 'data' event that takes the accumulated size over the limit
\* destroys the stream and answers 400 in that same step without keeping the
\* chunk; a destroyed stream changes nothing any more; the chunks kept never
\* exceed the limit and "too large" is answered only above the limit
C14_StreamingSizeLimit ==
    /\ [][\A u \in Uploads :
            /\ (up[u].fileSize <= MAX_FILE_SIZE /\ up'[u].fileSize > MAX_FILE_SIZE) =>
                  /\ up'[u].destroyed
                  /\ up'[u].resp = UpError(400, "File too large. Maximum size is 10MB.")
                  /\ up'[u].nresp = 1
                  /\ up'[u].chunks = up[u].chunks
            /\ up[u].destroyed => up'[u] = up[u]
       ]_vars
    /\ [](\A u \in Uploads :
            /\ SumLen(up[u].chunks) <= MAX_FILE_SIZE
            /\ up[u].destroyed <=> up[u].fileSize > MAX_FILE_SIZE
            /\ up[u].resp.error = "File too large. Maximum size is 10MB." =>
                  up[u].fileSize > MAX_FILE_SIZE)

C14_Witness ==
    \E u \in Uploads :
        /\ up[u].fileSize = MAX_FILE_SIZE /\ Len(up[u].chunks) = 2
        /\ up[u].resp.status = 200

\* C15: the imageUrl of every record in the store is absent, empty, or a URL
\* that a put has returned
C15_ImageUrlFromPut ==
    \A rec \in db : rec.data["imageUrl"] \in {Absent, ""} \cup issued

\* C16: whatever POST /data or PUT /data/:id hands to the store carries no
\* identifier field of the body and every other field as the body had it,
\* so no record holds an identifier that a client supplied
C16_NoClientIdentifier ==
    /\ \A s \in Handlers :
          (s.kind \in {"post", "put"} /\ s.tries >= 1) => s.handed = NoneHanded
    /\ \A rec \in db : \A f \in IdFields : rec.data[f] = Absent

\* C19: a PUT's attempts before the last all ended in a write conflict; it
\* answers 200 with the updated record when an attempt succeeds, 500 when an
\* attempt fails otherwise, 409 only when the third attempt conflicts too;
\* it has waited once between each two attempts and never after the last
C19_PutOutcomes ==
    \A s \in Handlers : s.kind = "put" =>
        LET n == Len(s.outcomes) IN
        /\ n = s.tries /\ n \in 1..3
        /\ \A i \in 1..(n - 1) : s.outcomes[i] = "P2034"
        /\ s.pc \in {"delay", "done"}
        /\ s.pc = "delay" =>
              /\ n <= 2 /\ s.outcomes[n] = "P2034"
              /\ s.delays = n /\ s.nresp = 0
        /\ s.pc = "done" =>
              /\ s.delays = n - 1 /\ s.nresp = 1
              /\ s.outcomes[n] = "ok" =>
                    /\ s.resp.status = 200 /\ s.resp.rec.id = s.id
              /\ s.outcomes[n] = "other" =>
                    s.resp = ErrorResp(500, "Failed to update record")
              /\ s.outcomes[n] = "P2034" =>
                    /\ n = 3
                    /\ s.resp = ErrorResp(409, "Write conflict, please retry")

C19_Witness ==
    /\ last.kind = "put" /\ last.resp.status = 409
    /\ last.outcomes = <<"P2034", "P2034", "P2034">> /\ last.delays = 2

\* C17: a PUT /data/:id makes no call to delete a blob, and the step in which
\* an update replaces a record's imageUrl leaves every blob in the object
\* store; blobs change only when the blob delete of a DELETE settles
C17_PutKeepsBlobs ==
    /\ [][/\ \A rec \in db : \A updated \in db' :
               (rec.id = updated.id
                  /\ rec.data["imageUrl"] # updated.data["imageUrl"]) =>
                    (blobs' = blobs)
          /\ (blobs' # blobs) =>
               (\E r \in Slots : req[r].kind = "delete" /\ req[r].pc = "blob")
       ]_vars
    /\ [](\A s \in Handlers :
            s.kind = "put" => (s.delCalls = <<>> /\ s.blobOutcome = "none"))

C17_Witness ==
    /\ last.kind = "put" /\ last.resp.status = 200
    /\ last.resp.rec.data["imageUrl"] = BlobUrl(2)
    /\ \E rec \in db : rec.id = 1 /\ rec.data["imageUrl"] = BlobUrl(2)
    /\ blobs = {BlobUrl(1), BlobUrl(2)}
    /\ \A r \in Slots : req[r].kind = "idle"

\* C20: the blob delete of a DELETE /data/:id names the imageUrl of the
\* record as it was when the record was deleted
C20_TargetsUrlAtDeletion ==
    \A s \in Handlers :
        (DeleteSucceeded(s) /\ s.pc \in {"blob", "done"}) =>
            s.delCalls = IF Truthy(s.result.data["imageUrl"])
                         THEN <<s.result.data["imageUrl"]>>
                         ELSE <<>>

\* C20 as the code has it: when a PUT replaced imageUrl between the read and
\* the deletion, the blob delete names the imageUrl that was read, and the
\* blob the record referred to when it was deleted is not removed by it
C20_TargetsUrlRead ==
    /\ [](\A s \in Handlers :
            (DeleteSucceeded(s) /\ s.pc \in {"blob", "done"}
               /\ s.result.data["imageUrl"] # s.photo.data["imageUrl"]) =>
                  /\ s.photo.id = s.result.id
                  /\ s.delCalls = IF Truthy(s.photo.data["imageUrl"])
                                  THEN <<s.photo.data["imageUrl"]>>
                                  ELSE <<>>)
    /\ [][\A r \in Slots :
            (req[r].kind = "delete" /\ req[r].pc = "blob"
               /\ req'[r] # req[r]
               /\ req[r].result.data["imageUrl"] # req[r].photo.data["imageUrl"]) =>
                  blobs \ blobs' \subseteq {req[r].photo.data["imageUrl"]}
       ]_vars

C20_Witness ==
    /\ last.kind = "delete" /\ last.resp.status = 200
    /\ last.photo.data["imageUrl"] = BlobUrl(1)
    /\ last.result.data["imageUrl"] = BlobUrl(2)
    /\ last.delCalls = <<BlobUrl(1)>> /\ last.blobOutcome = "ok"
    /\ blobs = {BlobUrl(2)} /\ db = {}

\* C18: the list a GET /data answers with has at most 100 records, all of
\* them records of the store at that moment and none twice; it is as long
\* as the store allows, no record left out is newer than one in the list,
\* and the list runs from the newest to the oldest
C18_NewestHundred ==
    [][(started' # started /\ last'.kind = "get" /\ last'.resp.status = 200) =>
         LET list == last'.resp.list
             n == Len(list)
         IN /\ n <= 100
            /\ n = IF Cardinality(db) < 100 THEN Cardinality(db) ELSE 100
            /\ \A i \in 1..n : list[i] \in db
            /\ \A i \in 1..n : \A j \in (i + 1)..n :
                   list[i] # list[j] /\ list[i].createdAt >= list[j].createdAt
            /\ \A rec \in db \ {list[i] : i \in 1..n} :
                   \A i \in 1..n : rec.createdAt <= list[i].createdAt
      ]_vars

C18_Witness ==
    /\ last.kind = "get" /\ last.resp.status = 200
    /\ Cardinality(db) = 102 /\ Len(last.resp.list) = 100
    /\ last.resp.list[1].createdAt = 102 /\ last.resp.list[1].id = 1
    /\ last.resp.list[100].createdAt = 3

\* The handler in slot i, the one that returned last for i = 0
HandlerAt(i) == IF i = 0 THEN last ELSE req[i]

\* C21: of the DELETE /data/:id requests for one identifier at most one
\* deletes the record, and only that one issues a blob delete; a deletion
\* succeeds only on a record that is in the store, removes it for good, and
\* fails with P2025 only when the record is gone; the request whose deletion
\* succeeded answers 200 and every other one answers the 500
C21_ConcurrentDeletes ==
    /\ [](\A i \in 0..MaxSlots : \A j \in (i + 1)..MaxSlots :
            LET s == HandlerAt(i)
                t == HandlerAt(j)
            IN (s.kind = "delete" /\ t.kind = "delete" /\ s.id = t.id) =>
                  /\ ~(DeleteSucceeded(s) /\ DeleteSucceeded(t))
                  /\ Len(s.delCalls) + Len(t.delCalls) <= 1)
    /\ [](\A s \in Handlers : s.kind = "delete" =>
            /\ Len(s.delCalls) <= 1
            /\ s.delCalls # <<>> => DeleteSucceeded(s)
            /\ DeleteSucceeded(s) => Find(s.id) = {}
            /\ s.pc = "done" =>
                  /\ s.nresp = 1
                  /\ DeleteSucceeded(s) => s.resp = RecResp(200, s.result)
                  /\ ~DeleteSucceeded(s) => s.resp = DeleteError)
    /\ [][/\ \A r \in Slots :
              (req[r].kind = "delete" /\ req[r].pc = "delete"
                 /\ req'[r] # req[r]) =>
                  LET t == IF req'[r].kind = "idle" THEN last' ELSE req'[r] IN
                  /\ DeleteSucceeded(t) =>
                        (Find(req[r].id) # {} /\ db' = db \ Find(req[r].id))
                  /\ ~DeleteSucceeded(t) => db' = db
                  /\ t.err = "P2025" <=>
                        (~DeleteSucceeded(t) /\ t.err # "other"
                           /\ Find(req[r].id) = {})
          /\ \A rec \in db' : rec.id <= nextId => (\E old \in db : old.id = rec.id)
       ]_vars

C21_Witness ==
    /\ last.kind = "delete" /\ last.err = "P2025"
    /\ last.photo # NoRec /\ Truthy(last.photo.data["imageUrl"])
    /\ last.resp = DeleteError /\ last.delCalls = <<>>
    /\ \E r \in Slots :
          /\ req[r].kind = "delete" /\ req[r].id = last.id
          /\ req[r].pc = "blob" /\ Len(req[r].delCalls) = 1

C23_KeepsReferencedBlobs ==
    [][\A rec \in db' :
          rec.data["imageUrl"] \in blobs => rec.data["imageUrl"] \in blobs'
      ]_vars

\* C23 as the code has it: blobs leave the object store only when the blob
\* delete of a DELETE /data/:id settles, and then only the blob at the
\* imageUrl that request read with findUnique; the blob of every record with
\* another imageUrl stays, while records with that same imageUrl lose theirs
C23_RemovesOnlyUrlRead ==
    [][(blobs' # blobs) =>
          \E r \in Slots :
              /\ req[r].kind = "delete" /\ req[r].pc = "blob"
              /\ DeleteSucceeded(req[r])
              /\ blobs \ blobs' = {req[r].photo.data["imageUrl"]}
              /\ blobs' \subseteq blobs
              /\ \A rec \in db' :
                    (rec.data["imageUrl"] \in blobs
                       /\ rec.data["imageUrl"] # req[r].photo.data["imageUrl"]) =>
                          rec.data["imageUrl"] \in blobs'
      ]_vars

C23_Witness ==
    /\ last.kind = "delete" /\ last.resp.status = 200
    /\ last.delCalls = <<BlobUrl(1)>> /\ last.blobOutcome = "ok"
    /\ last.result.data["imageUrl"] = BlobUrl(1)
    /\ BlobUrl(1) \notin blobs
    /\ \E rec \in db : rec.id # last.id /\ rec.data["imageUrl"] = BlobUrl(1)
====
